---- MODULE Spec2Model ----
(***************************************************************************)
(* MovAssist: the repetition state machine and form-evaluation engine of   *)
(* src/src/core/exercise.py (BaseExercise, Squat, Pushup), driven one      *)
(* frame at a time through BaseExercise.process_frame.                     *)
(*                                                                         *)
(* Angles are whole degrees in [0,180] (the result of calculate_angle),    *)
(* landmark visibilities are percentages (0.5 is 50).                      *)
(***************************************************************************)
EXTENDS Integers, Sequences, FiniteSets, TLC

VARIABLES
    exercise,        \* class of the instance: "Squat" or "Pushup"
    state,           \* self.state
    last_state,      \* self.last_state
    is_going_up,     \* self.is_going_up
    rep_count,       \* self.rep_count
    rep_completed,   \* self.rep_completed
    rep_errors,      \* self.rep_errors (a set of labels)
    body_direction,  \* self.body_direction
    reps_correct,    \* self.reps_correct
    reps_incorrect,  \* self.reps_incorrect
    min_knee_angle,  \* Squat.min_knee_angle
    min_elbow_angle, \* Pushup.min_elbow_angle
    min_angles_len,  \* len of each list of min_squat_angles /
                     \* min_pushup_angles (they are appended together)
    cleanup_pc,      \* VideoProcessor.cleanup: "not_run", "raised", "done"
    cycle_has_issues, \* history: a form check of the current Up->Mid->Up
                     \* cycle returned has_issues
    config,          \* the nested dicts of DEFAULT_CONFIG: the objects that
                     \* ConfigManager.config, ConfigWindow.config and the
                     \* instances' STATE_THRESH / ANGLE_THRESHOLDS refer to
    config_file,     \* content of CONFIG_FILE, "absent" without a file
    legacy,          \* the Squat instance of src/src/exercise.py
    summary,         \* the ExerciseSummary of that instance
    legacy_pushup,   \* a Pushup instance of src/src/exercise.py
    reader_pc,       \* VideoProcessor: position of the reader thread
    processor_pc,    \* position of the processor thread
    main_pc,         \* position of the thread that called start()
    frame_queue,     \* self.frame_queue, oldest frame first
    stop_flag,       \* self.stop_flag.is_set()
    frames_left,     \* frames the capture can still deliver
    processor_frame, \* the frame the processor thread took from the queue
    callback_log,    \* history: the positions in the source of the frames
                     \* passed to process_frame_callback, in call order
    user_quit,       \* history: the q key ended process_frames
    is_warmup,       \* self.is_warmup
    warmup_start,    \* self.warmup_start: <<>> for None, <<ticks>> otherwise
    set_feedback,    \* self.set_feedback
    feedback_timestamp, \* self.feedback_timestamp, in ticks of the clock
    now              \* the clock that time.time() and datetime.now() read,
                     \* in ticks since the construction of the objects
\* min_hip_angle and min_ankle_angle, which the form checks record next to
\* the running minimum, are read by nothing but the summary's history lists
\* and are left out.

core_vars == <<exercise, state, last_state, is_going_up, rep_count,
               rep_completed, rep_errors, body_direction, reps_correct,
               reps_incorrect, min_knee_angle, min_elbow_angle,
               min_angles_len, cleanup_pc, cycle_has_issues, set_feedback,
               feedback_timestamp, is_warmup, warmup_start>>

config_vars == <<config, config_file>>

summary_vars == <<legacy, summary, legacy_pushup>>

history_vars == <<callback_log, user_quit>>

video_vars == <<reader_pc, processor_pc, main_pc, frame_queue, stop_flag,
                frames_left, processor_frame, history_vars>>

clock_vars == <<now>>

vars == <<core_vars, config_vars, summary_vars, video_vars,
          clock_vars>>

-----------------------------------------------------------------------------
(* Bounds of the model *)

\* frames are processed while fewer than MaxReps repetitions are counted
MaxReps == 2

\* and while fewer than MaxCycles Up->Mid->Up cycles have been closed
MaxCycles == 2

\* update_metrics is called while an angle list has fewer than MaxSamples
\* samples
MaxSamples == 3

\* the first-generation Squat is fed while it counted fewer than
\* MaxLegacyReps repetitions
MaxLegacyReps == 1

\* bits of the mantissa of a float (53 in the float64 of the program): the
\* integers below 2^MantissaBits are floats, and above them the spacing
\* doubles with every binade
MantissaBits == 8

\* Queue(maxsize=queue_size): 40 by default
queue_size == 2

\* frames the video source delivers before the end of the stream
MaxFrames == 3

\* resolution of the clock: ticks in a second
TicksPerSecond == 2

\* the clock is followed for MaxTime ticks
MaxTime == 4

-----------------------------------------------------------------------------
(* Configuration: DEFAULT_CONFIG of src/src/ui/configwindow.py. The        *)
(* constructors keep the nested dicts that ConfigManager hands out, and    *)
(* load_config and reset_to_defaults copy DEFAULT_CONFIG one level deep,   *)
(* so every holder refers to the same nested dicts: the variable config.   *)

DEFAULT_CONFIG ==
    [squat  |-> [STATE_THRESH     |-> [up |-> 150, mid |-> 120, depth |-> 90],
                 ANGLE_THRESHOLDS |-> [depth |-> 90, min_depth |-> 40,
                                       hip_min |-> 60, hip_max |-> 90,
                                       ankle_min |-> 80]],
     pushup |-> [STATE_THRESH     |-> [up |-> 150, mid |-> 95],
                 ANGLE_THRESHOLDS |-> [hip_low |-> 190, hip_high |-> 160,
                                       elbow_min |-> 50]]]

\* ConfigManager.get_state_thresholds(self.__class__.__name__)
get_state_thresholds(exercise_name) ==
    IF exercise_name = "Squat" THEN config.squat.STATE_THRESH
                               ELSE config.pushup.STATE_THRESH

\* ConfigManager.get_angle_thresholds(self.__class__.__name__)
get_angle_thresholds(exercise_name) ==
    IF exercise_name = "Squat" THEN config.squat.ANGLE_THRESHOLDS
                               ELSE config.pushup.ANGLE_THRESHOLDS

\* the hard-coded push-up depth of check_pushup_form
PUSHUP_DEPTH == 90

\* landmark.visibility < 0.5, in percent
VISIBILITY_MIN == 50

\* the initial and reset value of the running minimum
ANGLE_MAX == 180

\* self.feedback_duration, in seconds
feedback_duration == 1

\* self.warmup_duration, in seconds
warmup_duration == 10

\* an attribute the constructor never assigned
NoAttr == -1

-----------------------------------------------------------------------------
(* Inputs *)

Joints == {"nose", "shoulder", "elbow", "wrist", "hip", "knee", "ankle",
           "foot_index"}

\* primary angles (knee for Squat, elbow for Pushup)
KneeAngles  == {35, 70, 85, 90, 95, 110, 120, 130, 140, 150, 155}
ElbowAngles == {45, 85, 94, 95, 150, 151, 160}
\* secondary angles
SquatHipAngles  == {50, 75, 100}
AnkleAngles     == {70, 90}
PushupHipAngles == {150, 170, 180}

\* (left_shoulder.z, right_shoulder.z); <<>> when the shoulders are missing
ShoulderZ == {<<0, 1>>, <<1, 0>>, <<1, 1>>}

AllVisible == [j \in Joints |-> 90]
OneHidden(j) == [AllVisible EXCEPT ![j] = 30]
AtThreshold == [j \in Joints |-> VISIBILITY_MIN]

\* no pose detected: result.pose_landmarks is None
NoPoseFrame ==
    [pose |-> FALSE, shoulder_z |-> <<>>, vis |-> AllVisible,
     primary |-> ANGLE_MAX, hip |-> ANGLE_MAX, ankle |-> ANGLE_MAX]

\* frames with a hidden joint or without shoulders carry one angle set
HiddenFrames ==
    {[pose |-> TRUE, shoulder_z |-> z, vis |-> OneHidden(j),
      primary |-> ANGLE_MAX, hip |-> ANGLE_MAX, ankle |-> ANGLE_MAX] :
        z \in ShoulderZ \cup {<<>>}, j \in Joints}
    \cup {[pose |-> TRUE, shoulder_z |-> <<>>, vis |-> AllVisible,
           primary |-> ANGLE_MAX, hip |-> ANGLE_MAX, ankle |-> ANGLE_MAX]}

\* analysed frames: the left side with every joint well visible, and the
\* tie of the shoulder depths with every joint exactly at the threshold
Views == {<<(<<0, 1>>), AllVisible>>, <<(<<1, 1>>), AtThreshold>>}

SquatFrames ==
    {[pose |-> TRUE, shoulder_z |-> w[1], vis |-> w[2],
      primary |-> k, hip |-> h, ankle |-> a] :
        w \in Views, k \in KneeAngles, h \in SquatHipAngles,
        a \in AnkleAngles}

PushupFrames ==
    {[pose |-> TRUE, shoulder_z |-> w[1], vis |-> w[2],
      primary |-> e, hip |-> h, ankle |-> ANGLE_MAX] :
        w \in Views, e \in ElbowAngles, h \in PushupHipAngles}

Frames(cls) ==
    {NoPoseFrame} \cup HiddenFrames
        \cup (IF cls = "Squat" THEN SquatFrames ELSE PushupFrames)

-----------------------------------------------------------------------------
(* The exercise object as a record of its fields *)

Self ==
    [exercise |-> exercise, state |-> state, last_state |-> last_state,
     is_going_up |-> is_going_up, rep_count |-> rep_count,
     rep_completed |-> rep_completed, rep_errors |-> rep_errors,
     body_direction |-> body_direction, reps_correct |-> reps_correct,
     reps_incorrect |-> reps_incorrect, min_knee_angle |-> min_knee_angle,
     min_elbow_angle |-> min_elbow_angle,
     min_angles_len |-> min_angles_len, set_feedback |-> set_feedback,
     feedback_timestamp |-> feedback_timestamp, is_warmup |-> is_warmup,
     warmup_start |-> warmup_start]

STATE_THRESH(s) == get_state_thresholds(s.exercise)
ANGLE_THRESHOLDS(s) == get_angle_thresholds(s.exercise)

\* BaseExercise.__init__ followed by Squat.__init__ / Pushup.__init__, with
\* the default use_camera=False
NewExercise(cls) ==
    [exercise |-> cls, state |-> "up", last_state |-> "up",
     is_going_up |-> TRUE, rep_count |-> 0, rep_completed |-> FALSE,
     rep_errors |-> {}, body_direction |-> "", reps_correct |-> 0,
     reps_incorrect |-> 0,
     min_knee_angle  |-> IF cls = "Squat" THEN ANGLE_MAX ELSE NoAttr,
     min_elbow_angle |-> IF cls = "Pushup" THEN ANGLE_MAX ELSE NoAttr,
     min_angles_len |-> 0, set_feedback |-> FALSE, feedback_timestamp |-> 0,
     is_warmup |-> FALSE, warmup_start |-> <<>>]

\* the same with use_camera=True
NewCameraExercise(cls) == [NewExercise(cls) EXCEPT !.is_warmup = TRUE]

-----------------------------------------------------------------------------
(* BaseExercise *)

\* mutant: a tie of the shoulder depths selects the left side
determine_body_direction_tie_left(s, landmarks) ==
    IF landmarks.shoulder_z = <<>>
    THEN [s EXCEPT !.body_direction = "None"]
    ELSE IF landmarks.shoulder_z[1] <= landmarks.shoulder_z[2]
         THEN [s EXCEPT !.body_direction = "Left"]
         ELSE [s EXCEPT !.body_direction = "Right"]

\* BaseExercise.determine_body_direction
determine_body_direction(s, landmarks) ==
    IF landmarks.shoulder_z = <<>>
    THEN [s EXCEPT !.body_direction = "None"]
    ELSE IF landmarks.shoulder_z[1] < landmarks.shoulder_z[2]
         THEN [s EXCEPT !.body_direction = "Left"]
         ELSE [s EXCEPT !.body_direction = "Right"]

\* Squat.get_required_landmarks / Pushup.get_required_landmarks
\* (<<>> stands for the None they return without a side)
get_required_landmarks(s) ==
    IF s.body_direction \in {"", "None"} THEN <<>>
    ELSE IF s.exercise = "Squat"
         THEN <<"nose", "shoulder", "hip", "knee", "ankle", "foot_index">>
         ELSE <<"nose", "shoulder", "hip", "knee", "ankle">>

\* mutant: one visible required landmark is enough
validate_required_landmarks_any(landmarks, required_landmarks) ==
    IF required_landmarks = <<>> THEN FALSE
    ELSE \E i \in 1..Len(required_landmarks) :
            ~(landmarks.vis[required_landmarks[i]] < VISIBILITY_MIN)

\* BaseExercise.validate_required_landmarks
validate_required_landmarks(landmarks, required_landmarks) ==
    IF required_landmarks = <<>> THEN FALSE
    ELSE \A i \in 1..Len(required_landmarks) :
            ~(landmarks.vis[required_landmarks[i]] < VISIBILITY_MIN)

\* BaseExercise.clear_rep_errors
clear_rep_errors(s) ==
    IF s.rep_completed THEN [s EXCEPT !.rep_errors = {}] ELSE s

\* mutant: every repetition also counts as correct
check_reps_both(s) ==
    IF s.rep_errors # {}
    THEN [s EXCEPT !.reps_incorrect = @ + 1, !.reps_correct = @ + 1]
    ELSE [s EXCEPT !.reps_correct = @ + 1]

\* mutant: the classification is inverted
check_reps_swapped(s) ==
    IF s.rep_errors # {}
    THEN [s EXCEPT !.reps_correct = @ + 1]
    ELSE [s EXCEPT !.reps_incorrect = @ + 1]

\* BaseExercise.check_reps
check_reps(s) ==
    IF s.rep_errors # {}
    THEN [s EXCEPT !.reps_incorrect = @ + 1]
    ELSE [s EXCEPT !.reps_correct = @ + 1]

-----------------------------------------------------------------------------
(* Squat *)

\* mutant: the thresholds themselves already switch the state
update_squat_state_inclusive(s, knee_angle) ==
    IF s.state = "up" /\ knee_angle <= STATE_THRESH(s).mid
    THEN [s EXCEPT !.state = "mid"]
    ELSE IF s.state = "mid" /\ knee_angle >= STATE_THRESH(s).up
         THEN [s EXCEPT
                 !.rep_completed =
                     IF s.min_knee_angle < STATE_THRESH(s).depth
                     THEN TRUE ELSE @,
                 !.state = "up",
                 !.min_angles_len = @ + 1,
                 !.min_knee_angle = ANGLE_MAX]
         ELSE s

\* mutant: every Mid->Up completes a repetition
update_squat_state_ungated(s, knee_angle) ==
    IF s.state = "up" /\ knee_angle < STATE_THRESH(s).mid
    THEN [s EXCEPT !.state = "mid"]
    ELSE IF s.state = "mid" /\ knee_angle > STATE_THRESH(s).up
         THEN [s EXCEPT !.rep_completed = TRUE,
                        !.state = "up",
                 !.min_angles_len = @ + 1,
                        !.min_knee_angle = ANGLE_MAX]
         ELSE s

\* mutant: the depth gate compares with the mid threshold
update_squat_state_midgate(s, knee_angle) ==
    IF s.state = "up" /\ knee_angle < STATE_THRESH(s).mid
    THEN [s EXCEPT !.state = "mid"]
    ELSE IF s.state = "mid" /\ knee_angle > STATE_THRESH(s).up
         THEN [s EXCEPT
                 !.rep_completed =
                     IF s.min_knee_angle < STATE_THRESH(s).mid
                     THEN TRUE ELSE @,
                 !.state = "up",
                 !.min_angles_len = @ + 1,
                 !.min_knee_angle = ANGLE_MAX]
         ELSE s

\* Squat.update_squat_state
update_squat_state(s, knee_angle) ==
    IF s.state = "up" /\ knee_angle < STATE_THRESH(s).mid
    THEN [s EXCEPT !.state = "mid"]
    ELSE IF s.state = "mid" /\ knee_angle > STATE_THRESH(s).up
         THEN [s EXCEPT
                 !.rep_completed =
                     IF s.min_knee_angle < STATE_THRESH(s).depth
                     THEN TRUE ELSE @,
                 !.state = "up",
                 !.min_angles_len = @ + 1,
                 !.min_knee_angle = ANGLE_MAX]
         ELSE s

\* mutant: holding at the minimum counts as going up
track_squat_minimum_ge(s, hip_angle, knee_angle, ankle_angle) ==
    IF knee_angle < s.min_knee_angle
    THEN [s EXCEPT !.min_knee_angle = knee_angle,
                   !.is_going_up = FALSE]
    ELSE [s EXCEPT !.is_going_up = TRUE]

\* mutant: the minimum is taken once, at the entry frame of the cycle
track_squat_minimum_first(s, hip_angle, knee_angle, ankle_angle) ==
    IF knee_angle < s.min_knee_angle
    THEN [s EXCEPT !.min_knee_angle =
                       IF @ = ANGLE_MAX THEN knee_angle ELSE @,
                   !.is_going_up = FALSE]
    ELSE IF knee_angle > s.min_knee_angle
         THEN [s EXCEPT !.is_going_up = TRUE]
         ELSE s

\* Squat.check_squat_form, lines 266-272: the running minimum
track_squat_minimum(s, hip_angle, knee_angle, ankle_angle) ==
    IF knee_angle < s.min_knee_angle
    THEN [s EXCEPT !.min_knee_angle = knee_angle,
                   !.is_going_up = FALSE]
    ELSE IF knee_angle > s.min_knee_angle
         THEN [s EXCEPT !.is_going_up = TRUE]
         ELSE s

\* Squat.check_squat_form, lines 274-297: the labels this frame adds
squat_form_errors(s, hip_angle, knee_angle, ankle_angle) ==
    IF s.state = "mid" /\ knee_angle < STATE_THRESH(s).depth
    THEN (IF hip_angle < ANGLE_THRESHOLDS(s).hip_min
          THEN {"Maitain more upright position"}
          ELSE IF hip_angle > ANGLE_THRESHOLDS(s).hip_max
               THEN {"Bend forward slightly more"}
               ELSE {})
         \cup (IF ankle_angle < ANGLE_THRESHOLDS(s).ankle_min
               THEN {"Knees going too forward"} ELSE {})
         \cup (IF knee_angle < ANGLE_THRESHOLDS(s).min_depth
               THEN {"Squat too deep"} ELSE {})
    ELSE IF s.state = "mid" /\ s.is_going_up
         THEN (IF s.min_knee_angle > STATE_THRESH(s).depth
               THEN {"Squat not deep enough"} ELSE {})
         ELSE {}

\* Squat.check_squat_form: the object afterwards and the has_issues result
check_squat_form(s, hip_angle, knee_angle, ankle_angle) ==
    LET s1 == track_squat_minimum(s, hip_angle, knee_angle, ankle_angle)
        found == squat_form_errors(s1, hip_angle, knee_angle, ankle_angle)
    IN  [self |-> [s1 EXCEPT !.rep_errors = @ \cup found],
         has_issues |-> found # {}]

-----------------------------------------------------------------------------
(* Pushup *)

\* mutant: the running minimum is not reset
update_pushup_state_noreset(s, elbow_angle) ==
    IF s.state = "up" /\ elbow_angle < STATE_THRESH(s).mid
    THEN [s EXCEPT !.state = "mid"]
    ELSE IF s.state = "mid" /\ elbow_angle > STATE_THRESH(s).up
         THEN [s EXCEPT !.state = "up",
                 !.min_angles_len = @ + 1,
                        !.rep_completed = TRUE]
         ELSE s

\* Pushup.update_pushup_state
update_pushup_state(s, elbow_angle) ==
    IF s.state = "up" /\ elbow_angle < STATE_THRESH(s).mid
    THEN [s EXCEPT !.state = "mid"]
    ELSE IF s.state = "mid" /\ elbow_angle > STATE_THRESH(s).up
         THEN [s EXCEPT !.state = "up",
                 !.min_angles_len = @ + 1,
                        !.rep_completed = TRUE,
                        !.min_elbow_angle = ANGLE_MAX]
         ELSE s

\* Pushup.check_pushup_form, lines 466-471: the running minimum
track_pushup_minimum(s, elbow_angle, hip_angle) ==
    IF elbow_angle < s.min_elbow_angle
    THEN [s EXCEPT !.min_elbow_angle = elbow_angle,
                   !.is_going_up = FALSE]
    ELSE IF elbow_angle > s.min_elbow_angle
         THEN [s EXCEPT !.is_going_up = TRUE]
         ELSE s

\* mutant: both hip labels are tested against hip_high
pushup_form_errors_one_bound(s, elbow_angle, hip_angle) ==
    IF s.state = "mid"
    THEN (IF elbow_angle < ANGLE_THRESHOLDS(s).elbow_min
          THEN {"Too deep"} ELSE {})
         \cup (IF hip_angle < ANGLE_THRESHOLDS(s).hip_high
               THEN {"Hip too high"}
               ELSE IF hip_angle > ANGLE_THRESHOLDS(s).hip_high
                    THEN {"Hip too low"} ELSE {})
    ELSE {}

\* Pushup.check_pushup_form, lines 473-490: the labels this frame adds
pushup_form_errors(s, elbow_angle, hip_angle) ==
    IF s.state = "mid"
    THEN (IF elbow_angle < ANGLE_THRESHOLDS(s).elbow_min
          THEN {"Too deep"} ELSE {})
         \cup (IF hip_angle < ANGLE_THRESHOLDS(s).hip_high
               THEN {"Hip too high"}
               ELSE IF hip_angle > ANGLE_THRESHOLDS(s).hip_low
                    THEN {"Hip too low"} ELSE {})
    ELSE IF s.state = "mid" /\ s.is_going_up
         THEN (IF s.min_elbow_angle > PUSHUP_DEPTH
               THEN {"Not deep enough"} ELSE {})
         ELSE {}

\* Pushup.check_pushup_form: the object afterwards and the has_issues result
check_pushup_form(s, elbow_angle, hip_angle) ==
    LET s1 == track_pushup_minimum(s, elbow_angle, hip_angle)
        found == pushup_form_errors(s1, elbow_angle, hip_angle)
    IN  [self |-> [s1 EXCEPT !.rep_errors = @ \cup found],
         has_issues |-> found # {}]

-----------------------------------------------------------------------------
(* The session summary *)

\* Squat.generate_summary, lines 380-408, and Pushup.generate_summary,
\* lines 583-612: 'if self.min_squat_angles' tests a dict that always has
\* its keys, and sum(l) / len(l) divides by the length of each list
generate_summary(s) ==
    IF s.min_angles_len = 0 THEN "ZeroDivisionError" ELSE "saved"

-----------------------------------------------------------------------------
(* process_exercise and process_frame *)

\* mutant: the repetition is finalized by the frame after the Mid->Up frame
finalize_rep_next_frame(s) ==
    IF s.rep_completed /\ s.last_state = "up"
    THEN [check_reps([s EXCEPT !.rep_count = @ + 1])
            EXCEPT !.rep_completed = FALSE]
    ELSE s

\* mutant: the finalization leaves rep_completed set
finalize_rep_keeps_flag(s) ==
    IF s.rep_completed /\ s.last_state = "mid"
    THEN check_reps([s EXCEPT !.rep_count = @ + 1])
    ELSE s

\* lines 222-225 / 452-455: finalization of a completed repetition
finalize_rep(s) ==
    IF s.rep_completed /\ s.last_state = "mid"
    THEN [check_reps([s EXCEPT !.rep_count = @ + 1])
            EXCEPT !.rep_completed = FALSE]
    ELSE s

\* Squat.process_exercise
squat_process_exercise(s, landmarks) ==
    LET s1 == update_squat_state(s, landmarks.primary)
        checked == check_squat_form(s1, landmarks.hip, landmarks.primary,
                                    landmarks.ankle)
        s2 == IF s1.state = "mid"
              THEN IF checked.has_issues
                   THEN [checked.self EXCEPT !.set_feedback = TRUE,
                                             !.feedback_timestamp = now]
                   ELSE checked.self
              ELSE s1
        s3 == finalize_rep(s2)
        s4 == [s3 EXCEPT !.last_state = s3.state]
    IN  clear_rep_errors(s4)

\* Pushup.process_exercise
pushup_process_exercise(s, landmarks) ==
    LET s1 == update_pushup_state(s, landmarks.primary)
        checked == check_pushup_form(s1, landmarks.primary,
                                     landmarks.hip)
        s2 == IF s1.state = "mid"
              THEN IF checked.has_issues
                   THEN [checked.self EXCEPT !.set_feedback = TRUE,
                                             !.feedback_timestamp = now]
                   ELSE checked.self
              ELSE s1
        s3 == finalize_rep(s2)
        s4 == [s3 EXCEPT !.last_state = s3.state]
    IN  clear_rep_errors(s4)

\* self.process_exercise, dispatched on the class
process_exercise(s, landmarks) ==
    IF s.exercise = "Squat" THEN squat_process_exercise(s, landmarks)
                            ELSE pushup_process_exercise(s, landmarks)

\* mutant: the feedback is still shown when the window has just closed
show_feedback_inclusive(s) ==
    IF /\ s.set_feedback
       /\ now - s.feedback_timestamp <= feedback_duration * TicksPerSecond
    THEN [self |-> s, displayed |-> TRUE]
    ELSE [self |-> [s EXCEPT !.set_feedback = FALSE], displayed |-> FALSE]

\* BaseExercise.process_frame, lines 102-105: the object afterwards and
\* whether display_feedback is called
show_feedback(s) ==
    IF /\ s.set_feedback
       /\ now - s.feedback_timestamp < feedback_duration * TicksPerSecond
    THEN [self |-> s, displayed |-> TRUE]
    ELSE [self |-> [s EXCEPT !.set_feedback = FALSE], displayed |-> FALSE]

\* mutant: the warm-up is measured from the construction of the object
warmup_from_construction(s) ==
    LET start == IF s.warmup_start = <<>> THEN now ELSE s.warmup_start[1]
        elapsed_time == now
        budget == warmup_duration * TicksPerSecond - elapsed_time
        remaining_time == IF budget > 0 THEN budget ELSE 0
    IN  IF remaining_time <= 0
        THEN [s EXCEPT !.is_warmup = FALSE, !.warmup_start = <<>>]
        ELSE [s EXCEPT !.warmup_start = <<start>>]

\* BaseExercise.process_frame, lines 62-84: a frame of the warm-up
warmup(s) ==
    LET start == IF s.warmup_start = <<>> THEN now ELSE s.warmup_start[1]
        elapsed_time == now - start
        budget == warmup_duration * TicksPerSecond - elapsed_time
        remaining_time == IF budget > 0 THEN budget ELSE 0
    IN  IF remaining_time <= 0
        THEN [s EXCEPT !.is_warmup = FALSE, !.warmup_start = <<>>]
        ELSE [s EXCEPT !.warmup_start = <<start>>]

\* BaseExercise.process_frame, lines 54-107
process_frame(s, f) ==
    IF s.is_warmup THEN warmup(s)
    ELSE IF ~f.pose THEN s
    ELSE LET s1 == determine_body_direction(s, f)
             required_landmarks == get_required_landmarks(s1)
         IN  IF ~validate_required_landmarks(f, required_landmarks)
             THEN s1
             ELSE show_feedback(process_exercise(s1, f)).self

\* whether process_frame reaches process_exercise on frame f
Analysed(s, f) ==
    /\ ~s.is_warmup
    /\ f.pose
    /\ validate_required_landmarks(
           f, get_required_landmarks(determine_body_direction(s, f)))

\* whether process_frame on frame f calls display_feedback
feedback_displayed(s, f) ==
    /\ Analysed(s, f)
    /\ show_feedback(
           process_exercise(determine_body_direction(s, f), f)).displayed

\* lines 216-220 / 446-450: the form check of frame f returns has_issues
frame_has_issues(s, f) ==
    /\ Analysed(s, f)
    /\ LET s0 == determine_body_direction(s, f)
           s1 == IF s.exercise = "Squat"
                 THEN update_squat_state(s0, f.primary)
                 ELSE update_pushup_state(s0, f.primary)
       IN  /\ s1.state = "mid"
           /\ IF s.exercise = "Squat"
              THEN check_squat_form(s1, f.hip, f.primary, f.ankle).has_issues
              ELSE check_pushup_form(s1, f.primary, f.hip).has_issues

-----------------------------------------------------------------------------
(* Configuration window: src/src/ui/configwindow.py *)

\* the values of the spin boxes when Save Configuration is clicked (each
\* box takes 0..360, lines 137-157): the defaults, or a deeper squat depth,
\* a hip_min above hip_max and a lower push-up mid threshold
WidgetValues ==
    {DEFAULT_CONFIG,
     [DEFAULT_CONFIG EXCEPT !.squat.STATE_THRESH.depth = 100,
                            !.squat.ANGLE_THRESHOLDS.hip_min = 110,
                            !.pushup.STATE_THRESH.mid = 90]}

NoConfigFile == [exists |-> FALSE, content |-> DEFAULT_CONFIG]

\* the nested dicts after 'd[exercise][section][key] = values[...]' for
\* every key of d that values has
write_keys(d, values) ==
    [ex \in DOMAIN d |->
        [section \in DOMAIN d[ex] |->
            [key \in DOMAIN d[ex][section] |->
                IF /\ ex \in DOMAIN values
                   /\ section \in DOMAIN values[ex]
                   /\ key \in DOMAIN values[ex][section]
                THEN values[ex][section][key]
                ELSE d[ex][section][key]]]]

\* load_config: the nested dicts afterwards. validated_config is
\* DEFAULT_CONFIG.copy(), whose values are the shared nested dicts, so the
\* values of the file are written into them
load_config(shared, file) ==
    IF file.exists THEN write_keys(shared, file.content) ELSE shared

\* save_config: the file afterwards
save_config(cfg) == [exists |-> TRUE, content |-> cfg]

\* ConfigWindow.save_settings: the widget values are written into
\* self.config[exercise][section], the file is saved and the ConfigManager
\* reloads it
save_settings(shared, widgets) ==
    LET written == write_keys(shared, widgets)
        file == save_config(written)
    IN  [config |-> load_config(written, file), config_file |-> file]

\* ConfigWindow.reset_to_defaults, confirmed: self.config becomes
\* DEFAULT_CONFIG.copy(), whose nested dicts are the shared ones with
\* whatever they hold by now, and that is saved
reset_to_defaults(shared) ==
    [config |-> shared, config_file |-> save_config(shared)]

-----------------------------------------------------------------------------
(* The first generation of the engine, src/src/exercise.py: Squat and the  *)
(* ExerciseSummary that observes it                                        *)

\* Squat.STATE_THRESH, a class attribute
LEGACY_STATE_THRESH == [up |-> 150, mid |-> 120, depth |-> 90]

\* BaseExercise.__init__ and Squat.__init__
NewLegacySquat ==
    [state |-> "up", last_state |-> "up", is_going_up |-> TRUE,
     rep_count |-> 0, rep_completed |-> FALSE, rep_errors |-> {},
     body_direction |-> "", min_knee_angle |-> ANGLE_MAX,
     last_hip_angle |-> 0, last_knee_angle |-> 0, last_ankle_angle |-> 0]

\* Squat.update_squat_state
legacy_update_squat_state(s, knee_angle) ==
    IF s.state = "up" /\ knee_angle < LEGACY_STATE_THRESH.mid
    THEN [s EXCEPT !.state = "mid"]
    ELSE IF s.state = "mid" /\ knee_angle > LEGACY_STATE_THRESH.up
         THEN [s EXCEPT
                 !.rep_completed =
                     IF s.min_knee_angle < LEGACY_STATE_THRESH.depth
                     THEN TRUE ELSE @,
                 !.state = "up",
                 !.min_knee_angle = ANGLE_MAX]
         ELSE s

\* Squat.check_squat_form: the object afterwards
legacy_check_squat_form(s, hip_angle, knee_angle, ankle_angle) ==
    LET s1 == IF knee_angle < s.min_knee_angle
              THEN [s EXCEPT !.min_knee_angle = knee_angle,
                             !.is_going_up = FALSE]
              ELSE IF knee_angle > s.min_knee_angle
                   THEN [s EXCEPT !.is_going_up = TRUE]
                   ELSE s
        found ==
            IF s1.state = "mid" /\ knee_angle < LEGACY_STATE_THRESH.depth
            THEN (IF hip_angle < 45
                  THEN {"Maitain more upright position"}
                  ELSE IF hip_angle > 120
                       THEN {"Bend forward slightly more"}
                       ELSE {})
                 \cup (IF ankle_angle < 60
                       THEN {"Knees going too forward"} ELSE {})
            ELSE IF s1.state = "mid" /\ s1.is_going_up
                 THEN (IF s1.min_knee_angle > LEGACY_STATE_THRESH.depth
                       THEN {"Squat not deep enough"} ELSE {})
                 ELSE {}
    IN  [s1 EXCEPT !.rep_errors = @ \cup found]

\* Squat.process_exercise
legacy_process_exercise(s, landmarks) ==
    LET s0 == [s EXCEPT !.last_hip_angle = landmarks.hip,
                        !.last_knee_angle = landmarks.primary,
                        !.last_ankle_angle = landmarks.ankle]
        s1 == legacy_update_squat_state(s0, landmarks.primary)
        s2 == IF s1.state = "mid"
              THEN legacy_check_squat_form(s1, landmarks.hip,
                                           landmarks.primary,
                                           landmarks.ankle)
              ELSE s1
        s3 == IF s2.rep_completed /\ s2.last_state = "mid"
              THEN [s2 EXCEPT !.rep_count = @ + 1,
                              !.rep_completed = FALSE]
              ELSE s2
        s4 == [s3 EXCEPT !.last_state = s3.state]
    IN  IF s4.rep_completed THEN [s4 EXCEPT !.rep_errors = {}] ELSE s4

\* Squat.get_required_landmarks
legacy_get_required_landmarks(s) ==
    IF s.body_direction \in {"", "None"} THEN <<>>
    ELSE <<"nose", "shoulder", "hip", "knee", "ankle", "foot_index">>

\* BaseExercise.process_frame
legacy_process_frame(s, f) ==
    IF ~f.pose THEN s
    ELSE LET s1 == determine_body_direction(s, f)
             required_landmarks == legacy_get_required_landmarks(s1)
         IN  IF ~validate_required_landmarks(f, required_landmarks)
             THEN s1
             ELSE legacy_process_exercise(s1, f)

\* Pushup.STATE_THRESH, a class attribute
LEGACY_PUSHUP_STATE_THRESH == [up |-> 150, mid |-> 95]

\* BaseExercise.__init__ and Pushup.__init__; last_call is the outcome of
\* the last call of a method of the instance
NewLegacyPushup ==
    [state |-> "up", last_state |-> "up", is_going_up |-> TRUE,
     rep_count |-> 0, rep_completed |-> FALSE, rep_errors |-> {},
     body_direction |-> "", min_elbow_angle |-> ANGLE_MAX,
     last_elbow_angle |-> 0, last_hip_angle |-> 0, last_call |-> ""]

\* Pushup.update_pushup_state
legacy_update_pushup_state(s, elbow_angle) ==
    IF s.state = "up" /\ elbow_angle < LEGACY_PUSHUP_STATE_THRESH.mid
    THEN [s EXCEPT !.state = "mid"]
    ELSE IF s.state = "mid" /\ elbow_angle > LEGACY_PUSHUP_STATE_THRESH.up
         THEN [s EXCEPT !.state = "up",
                        !.min_elbow_angle = ANGLE_MAX,
                        !.rep_completed = TRUE]
         ELSE s

\* Pushup.check_pushup_form: the object afterwards
legacy_check_pushup_form(s, elbow_angle, hip_angle) ==
    LET s1 == IF elbow_angle < s.min_elbow_angle
              THEN [s EXCEPT !.min_elbow_angle = elbow_angle,
                             !.is_going_up = FALSE]
              ELSE IF elbow_angle > s.min_elbow_angle
                   THEN [s EXCEPT !.is_going_up = TRUE]
                   ELSE s
        found ==
            IF s1.state = "mid" /\ elbow_angle < 90
            THEN (IF elbow_angle < 60 THEN {"Too deep"} ELSE {})
                 \cup (IF hip_angle < 160
                       THEN {"Hip too low"}
                       ELSE IF hip_angle > 200
                            THEN {"Hip too high"} ELSE {})
            ELSE IF s1.state = "mid" /\ s1.is_going_up
                 THEN (IF s1.min_elbow_angle > 90
                       THEN {"Not deep enough"} ELSE {})
                 ELSE {}
    IN  [s1 EXCEPT !.rep_errors = @ \cup found]

\* Pushup.process_exercise, lines 317-320: the finalization
legacy_pushup_finalize(s) ==
    IF s.rep_completed /\ s.last_state = "mid"
    THEN [s EXCEPT !.rep_count = @ + 1,
                   !.rep_completed = FALSE,
                   !.rep_errors = {}]
    ELSE s

\* Pushup.process_exercise: the finalization and the update of last_state
\* are inside the 'if self.state == "mid"' block
legacy_pushup_process_exercise(s, landmarks) ==
    LET s0 == [s EXCEPT !.last_elbow_angle = landmarks.primary,
                        !.last_hip_angle = landmarks.hip,
                        !.last_call = "returned"]
        s1 == legacy_update_pushup_state(s0, landmarks.primary)
    IN  IF s1.state = "mid"
        THEN LET s2 == legacy_check_pushup_form(s1, landmarks.primary,
                                                landmarks.hip)
                 s3 == legacy_pushup_finalize(s2)
             IN  [s3 EXCEPT !.last_state = s3.state]
        ELSE s1

\* BaseExercise.process_frame on a Pushup: the class defines the list
\* REQUIRED_LANDMARKS and no get_required_landmarks method, so the call of
\* line 53 raises AttributeError on every frame with a pose
legacy_pushup_process_frame(s, f) ==
    IF ~f.pose THEN [s EXCEPT !.last_call = "returned"]
    ELSE [determine_body_direction(s, f)
             EXCEPT !.last_call = "AttributeError"]

\* the frames of a push-up: up, half way, down and too deep, with the hip
\* in line or piked, and a frame without a pose
LegacyPushupFrames ==
    {NoPoseFrame}
        \cup {[pose |-> TRUE, shoulder_z |-> <<0, 1>>, vis |-> AllVisible,
               primary |-> el, hip |-> h, ankle |-> ANGLE_MAX] :
                 el \in {160, 100, 85, 55}, h \in {170, 150}}

\* the frames of the first-generation engine: standing and deep, upright
\* or bent forward, and a frame without a pose
LegacyFrames ==
    {NoPoseFrame}
        \cup {[pose |-> TRUE, shoulder_z |-> <<0, 1>>, vis |-> AllVisible,
               primary |-> k, hip |-> h, ankle |-> 70] :
                 k \in {174, 80}, h \in {90, 130}}

\* ExerciseSummary._get_tracked_angles for a Squat
TrackedAngles == {"hip_angle", "knee_angle", "ankle_angle"}

\* the labels a Squat can hold in rep_errors
LegacyLabels ==
    {"Maitain more upright position", "Bend forward slightly more",
     "Knees going too forward", "Squat not deep enough"}

\* getattr(self.exercise, f"_last_{angle}", None)
last_angle(ex, angle) ==
    IF angle = "hip_angle" THEN ex.last_hip_angle
    ELSE IF angle = "knee_angle" THEN ex.last_knee_angle
         ELSE ex.last_ankle_angle

\* ExerciseMetrics and ExerciseSummary.__init__; an absent key of
\* issues_frequency is a count of 0 and an absent key of angle_metrics is <<>>
NewExerciseSummary ==
    [total_reps |-> 0, correct_reps |-> 0, incorrect_reps |-> 0,
     issues_frequency |-> [l \in LegacyLabels |-> 0],
     angle_metrics |-> [a \in TrackedAngles |-> <<>>],
     end_time |-> <<>>,
     last_rep_count |-> 0,
     angle_values |-> [a \in TrackedAngles |-> <<>>]]

\* ExerciseSummary.update_metrics
update_metrics(sm, ex) ==
    [sm EXCEPT
       !.angle_values =
           [a \in TrackedAngles |-> Append(@[a], last_angle(ex, a))],
       !.total_reps = IF ex.rep_count > sm.last_rep_count
                      THEN ex.rep_count ELSE @,
       !.incorrect_reps = IF ex.rep_errors # {} THEN @ + 1 ELSE @,
       !.issues_frequency =
           [l \in LegacyLabels |->
               IF l \in ex.rep_errors THEN @[l] + 1 ELSE @[l]],
       !.correct_reps = IF ex.rep_errors = {} THEN @ + 1 ELSE @,
       !.last_rep_count = ex.rep_count]

\* 2^n
RECURSIVE pow2(_)
pow2(n) == IF n = 0 THEN 1 ELSE 2 * pow2(n - 1)

\* the spacing of the floats around num / den: 1 below 2^MantissaBits,
\* doubling with every binade above
RECURSIVE float_spacing(_, _, _)
float_spacing(num, den, u) ==
    IF num < pow2(MantissaBits) * u * den THEN u
    ELSE float_spacing(num, den, 2 * u)

\* num / den rounded to the nearest float, ties to the even mantissa
float_round(num, den) ==
    LET u == float_spacing(num, den, 1)
        m == num \div (den * u)
        r == num - m * den * u
    IN  IF 2 * r < den * u THEN m * u
        ELSE IF 2 * r > den * u THEN (m + 1) * u
             ELSE IF m % 2 = 0 THEN m * u ELSE (m + 1) * u

\* the float sum of np.mean: an accumulator rounded after every addition
RECURSIVE float_sum(_, _)
float_sum(acc, values) ==
    IF values = <<>> THEN acc
    ELSE float_sum(float_round(acc + Head(values), 1), Tail(values))

\* float(np.mean(values))
np_mean(values) == float_round(float_sum(0, values), Len(values))

\* float(np.min(values)) and float(np.max(values))
np_min(values) ==
    CHOOSE v \in {values[i] : i \in 1..Len(values)} :
        \A i \in 1..Len(values) : v <= values[i]
np_max(values) ==
    CHOOSE v \in {values[i] : i \in 1..Len(values)} :
        \A i \in 1..Len(values) : v >= values[i]

\* mutant: the statistics are computed without the 'if values' guard, and
\* np.min of an empty list raises
calculate_angle_statistics_unguarded(sm) ==
    [sm EXCEPT !.angle_metrics =
        [a \in TrackedAngles |->
            IF sm.angle_values[a] = <<>> THEN <<"ValueError">>
            ELSE <<[mean |-> np_mean(sm.angle_values[a]),
                    min |-> np_min(sm.angle_values[a]),
                    max |-> np_max(sm.angle_values[a])]>>]]

\* ExerciseSummary.calculate_angle_statistics (std is left out)
calculate_angle_statistics(sm) ==
    [sm EXCEPT !.angle_metrics =
        [a \in TrackedAngles |->
            IF sm.angle_values[a] # <<>>
            THEN <<[mean |-> np_mean(sm.angle_values[a]),
                    min |-> np_min(sm.angle_values[a]),
                    max |-> np_max(sm.angle_values[a])]>>
            ELSE @[a]]]

\* datetime.strftime("%Y-%m-%d %H:%M:%S"): the text names the whole second
\* of the instant; it is modelled by that second, in a sequence of length
\* one (the empty string is the empty sequence)
strftime(instant) == <<instant \div TicksPerSecond>>

\* ExerciseSummary.generate_summary
summary_generate_summary(sm) ==
    calculate_angle_statistics([sm EXCEPT !.end_time = strftime(now)])

\* ExerciseSummary.save_summary, up to the writing of the text file
save_summary(sm, ex) == summary_generate_summary(update_metrics(sm, ex))

-----------------------------------------------------------------------------
(* VideoProcessor: src/src/core/video_processing.py *)

\* the frames of the video source: the body up and the body down
StreamFrames(cls) ==
    IF cls = "Squat"
    THEN {[pose |-> TRUE, shoulder_z |-> <<0, 1>>, vis |-> AllVisible,
           primary |-> k, hip |-> 75, ankle |-> 90] : k \in {155, 85}}
    ELSE {[pose |-> TRUE, shoulder_z |-> <<0, 1>>, vis |-> AllVisible,
           primary |-> e, hip |-> 170, ankle |-> ANGLE_MAX] :
             e \in {160, 85}}

\* mutant: a queue without maxsize
put_unbounded(q, frame) == Append(q, frame)

\* mutant: the frame is put at the head of the queue
put_front(q, frame) == IF Len(q) < queue_size THEN <<frame>> \o q ELSE q

\* self.frame_queue.put(frame, timeout=0.1) on Queue(maxsize=queue_size):
\* the queue afterwards; on a queue that stays full put raises Full and
\* read_frames skips the frame
put(q, frame) == IF Len(q) < queue_size THEN Append(q, frame) ELSE q

\* mutant: start() does not wait for the thread
join_nowait(thread_pc) == TRUE

\* thread.join() returns once the thread has terminated
join(thread_pc) == thread_pc = "done"

\* the condition of the while loop of process_frames
process_frames_continues(stop, q) == ~stop \/ q = <<>>

-----------------------------------------------------------------------------
(* The state machine *)

SetSelf(s) ==
    /\ exercise' = s.exercise
    /\ state' = s.state
    /\ last_state' = s.last_state
    /\ is_going_up' = s.is_going_up
    /\ rep_count' = s.rep_count
    /\ rep_completed' = s.rep_completed
    /\ rep_errors' = s.rep_errors
    /\ body_direction' = s.body_direction
    /\ reps_correct' = s.reps_correct
    /\ reps_incorrect' = s.reps_incorrect
    /\ min_knee_angle' = s.min_knee_angle
    /\ min_elbow_angle' = s.min_elbow_angle
    /\ min_angles_len' = s.min_angles_len
    /\ set_feedback' = s.set_feedback
    /\ feedback_timestamp' = s.feedback_timestamp
    /\ is_warmup' = s.is_warmup
    /\ warmup_start' = s.warmup_start

InitWith(use_camera) ==
    \E cls \in {"Squat", "Pushup"} :
        LET s == IF use_camera THEN NewCameraExercise(cls)
                               ELSE NewExercise(cls)
        IN  /\ exercise = s.exercise
            /\ state = s.state
            /\ last_state = s.last_state
            /\ is_going_up = s.is_going_up
            /\ rep_count = s.rep_count
            /\ rep_completed = s.rep_completed
            /\ rep_errors = s.rep_errors
            /\ body_direction = s.body_direction
            /\ reps_correct = s.reps_correct
            /\ reps_incorrect = s.reps_incorrect
            /\ min_knee_angle = s.min_knee_angle
            /\ min_elbow_angle = s.min_elbow_angle
            /\ min_angles_len = s.min_angles_len
            /\ set_feedback = s.set_feedback
            /\ feedback_timestamp = s.feedback_timestamp
            /\ is_warmup = s.is_warmup
            /\ warmup_start = s.warmup_start
            /\ cleanup_pc = "not_run"
            /\ cycle_has_issues = FALSE
            /\ config = DEFAULT_CONFIG
            /\ config_file = NoConfigFile
            /\ legacy = NewLegacySquat
            /\ summary = NewExerciseSummary
            /\ legacy_pushup = NewLegacyPushup
            /\ reader_pc = "not_started"
            /\ processor_pc = "not_started"
            /\ main_pc = "start"
            /\ frame_queue = <<>>
            /\ stop_flag = FALSE
            /\ frames_left = MaxFrames
            /\ processor_frame = <<>>
            /\ callback_log = <<>>
            /\ user_quit = FALSE
            /\ now = 0

\* a session on a video file: the exercise is constructed with
\* use_camera=False
Init == InitWith(FALSE)

\* a session on the camera: use_camera=True
InitCamera == InitWith(TRUE)

\* one call of process_frame by the frame loop
ProcessFrame ==
    /\ cleanup_pc = "not_run"
    /\ rep_count < MaxReps
    /\ min_angles_len < MaxCycles
    /\ \E f \in Frames(exercise) :
          /\ SetSelf(process_frame(Self, f))
          /\ cycle_has_issues' =
                 IF process_frame(Self, f).state = "up" THEN FALSE
                 ELSE cycle_has_issues \/ frame_has_issues(Self, f)
    /\ UNCHANGED <<cleanup_pc, config_vars, summary_vars, video_vars, clock_vars>>

\* VideoProcessor.cleanup, lines 197-206, at the end of the session: the
\* summary of the exercise instance when the report was asked for
\* (squat_instance / pushup_instance is not None), then the release of the
\* video writer and the window teardown, which an exception of the summary
\* skips
Cleanup ==
    /\ cleanup_pc = "not_run"
    /\ main_pc = "start"
    /\ \E report \in BOOLEAN :
          cleanup_pc' =
              IF report /\ generate_summary(Self) = "ZeroDivisionError"
              THEN "raised" ELSE "done"
    /\ UNCHANGED <<exercise, state, last_state, is_going_up, rep_count,
                   rep_completed, rep_errors, body_direction, reps_correct,
                   reps_incorrect, min_knee_angle, min_elbow_angle,
                   min_angles_len, cycle_has_issues, set_feedback,
                   feedback_timestamp, is_warmup, warmup_start>>
    /\ UNCHANGED <<config_vars, summary_vars, video_vars, clock_vars>>

Next == ProcessFrame \/ Cleanup

Spec == Init /\ [][Next]_vars

-----------------------------------------------------------------------------
(* A session while the clock runs *)

\* the frames of the session: no pose, or the body up, half way down and
\* down, with the secondary angle in bounds and out of bounds
SessionFrames(cls) ==
    {NoPoseFrame} \cup
    (IF cls = "Squat"
     THEN {[pose |-> TRUE, shoulder_z |-> <<0, 1>>, vis |-> AllVisible,
            primary |-> k, hip |-> h, ankle |-> 90] :
              k \in {155, 110, 85}, h \in {75, 50}}
     ELSE {[pose |-> TRUE, shoulder_z |-> <<0, 1>>, vis |-> AllVisible,
            primary |-> e, hip |-> h, ankle |-> ANGLE_MAX] :
              e \in {160, 85}, h \in {170, 150}})

\* one call of process_frame by the frame loop, on a frame of the session
ProcessSessionFrame ==
    /\ cleanup_pc = "not_run"
    /\ rep_count < MaxReps
    /\ min_angles_len < MaxCycles
    /\ \E f \in SessionFrames(exercise) :
          /\ SetSelf(process_frame(Self, f))
          /\ cycle_has_issues' =
                 IF process_frame(Self, f).state = "up" THEN FALSE
                 ELSE cycle_has_issues \/ frame_has_issues(Self, f)
    /\ UNCHANGED <<cleanup_pc, config_vars, summary_vars, video_vars,
                   clock_vars>>

\* the clock advances by one tick
Tick ==
    /\ now < MaxTime
    /\ now' = now + 1
    /\ UNCHANGED <<core_vars, config_vars, summary_vars, video_vars>>

NextFeedback == ProcessSessionFrame \/ Tick

SpecFeedback == Init /\ [][NextFeedback]_vars

-----------------------------------------------------------------------------
(* A session on the camera, with its warm-up *)

\* the clock advances by one tick; it is followed for MaxTime ticks past the
\* length of the warm-up
CameraTick ==
    /\ now < warmup_duration * TicksPerSecond + MaxTime
    /\ now' = now + 1
    /\ UNCHANGED <<core_vars, config_vars, summary_vars, video_vars>>

NextWarmup == ProcessSessionFrame \/ CameraTick

SpecWarmup == InitCamera /\ [][NextWarmup]_vars

-----------------------------------------------------------------------------
(* A session while the configuration window is used *)

\* Save Configuration is clicked
SaveSettings ==
    /\ \E widgets \in WidgetValues :
          /\ config' = save_settings(config, widgets).config
          /\ config_file' = save_settings(config, widgets).config_file
    /\ UNCHANGED <<core_vars, summary_vars, video_vars, clock_vars>>

\* Reset Configuration is clicked and confirmed
ResetToDefaults ==
    /\ config' = reset_to_defaults(config).config
    /\ config_file' = reset_to_defaults(config).config_file
    /\ UNCHANGED <<core_vars, summary_vars, video_vars, clock_vars>>

\* ConfigWindow.__init__ (a configuration window is opened) or
\* ConfigManager.reload_config: load_config
LoadConfig ==
    /\ config' = load_config(config, config_file)
    /\ UNCHANGED <<config_file, core_vars, summary_vars, video_vars, clock_vars>>

NextConfig == ProcessFrame \/ SaveSettings \/ ResetToDefaults \/ LoadConfig

SpecConfig == Init /\ [][NextConfig]_vars

-----------------------------------------------------------------------------
(* The first-generation Squat observed by an ExerciseSummary *)

\* one call of process_frame of the first-generation Squat
LegacyProcessFrame ==
    /\ legacy.rep_count < MaxLegacyReps
    /\ \E f \in LegacyFrames : legacy' = legacy_process_frame(legacy, f)
    /\ UNCHANGED <<summary, legacy_pushup, core_vars, config_vars, video_vars,
                   clock_vars>>

\* one call of ExerciseSummary.update_metrics
UpdateMetrics ==
    /\ Len(summary.angle_values["knee_angle"]) < MaxSamples
    /\ summary' = update_metrics(summary, legacy)
    /\ UNCHANGED <<legacy, legacy_pushup, core_vars, config_vars, video_vars,
                   clock_vars>>

\* one call of ExerciseSummary.generate_summary
GenerateSummary ==
    /\ summary' = summary_generate_summary(summary)
    /\ UNCHANGED <<legacy, legacy_pushup, core_vars, config_vars, video_vars,
                   clock_vars>>

\* one call of ExerciseSummary.save_summary
SaveSummary ==
    /\ Len(summary.angle_values["knee_angle"]) < MaxSamples
    /\ summary' = save_summary(summary, legacy)
    /\ UNCHANGED <<legacy, legacy_pushup, core_vars, config_vars, video_vars,
                   clock_vars>>

NextSummary ==
    LegacyProcessFrame \/ UpdateMetrics \/ GenerateSummary \/ SaveSummary

\* the ExerciseSummary of a freshly constructed Squat
InitSummary == Init /\ exercise = "Squat"

SpecSummary == InitSummary /\ [][NextSummary]_vars

\* the same while the clock runs
NextSummaryClock == NextSummary \/ Tick

SpecSummaryClock == InitSummary /\ [][NextSummaryClock]_vars

-----------------------------------------------------------------------------
(* The first-generation Pushup *)

\* one call of process_frame of the first-generation Pushup
LegacyPushupProcessFrame ==
    /\ \E f \in LegacyPushupFrames :
          legacy_pushup' = legacy_pushup_process_frame(legacy_pushup, f)
    /\ UNCHANGED <<legacy, summary, core_vars, config_vars, video_vars,
                   clock_vars>>

\* one call of process_exercise of the first-generation Pushup, on the
\* landmarks of a frame, once the body direction is known
LegacyPushupProcessExercise ==
    /\ legacy_pushup.body_direction \in {"Left", "Right"}
    /\ legacy_pushup.rep_count < MaxLegacyReps
    /\ \E f \in LegacyPushupFrames :
          /\ f.pose
          /\ legacy_pushup' =
                 legacy_pushup_process_exercise(legacy_pushup, f)
    /\ UNCHANGED <<legacy, summary, core_vars, config_vars, video_vars,
                   clock_vars>>

NextLegacyPushup == LegacyPushupProcessFrame \/ LegacyPushupProcessExercise

SpecLegacyPushup == Init /\ [][NextLegacyPushup]_vars

-----------------------------------------------------------------------------
(* VideoProcessor.start(): the calling thread, the reader thread and the   *)
(* processor thread                                                        *)

unchanged_exercise ==
    UNCHANGED <<exercise, state, last_state, is_going_up, rep_count,
                rep_completed, rep_errors, body_direction, reps_correct,
                reps_incorrect, min_knee_angle, min_elbow_angle,
                min_angles_len, cycle_has_issues, set_feedback,
                feedback_timestamp, is_warmup, warmup_start>>

\* start, lines 168-174: reader_thread.start()
StartReader ==
    /\ main_pc = "start"
    /\ cleanup_pc = "not_run"
    /\ main_pc' = "start_processor"
    /\ reader_pc' = "open"
    /\ unchanged_exercise
    /\ UNCHANGED history_vars
    /\ UNCHANGED <<cleanup_pc, processor_pc, frame_queue, stop_flag,
                   frames_left, processor_frame, config_vars, summary_vars, clock_vars>>

\* start, lines 173-174: processor_thread.start()
StartProcessor ==
    /\ main_pc = "start_processor"
    /\ main_pc' = "join_reader"
    /\ processor_pc' = "test"
    /\ unchanged_exercise
    /\ UNCHANGED history_vars
    /\ UNCHANGED <<cleanup_pc, reader_pc, frame_queue, stop_flag,
                   frames_left, processor_frame, config_vars, summary_vars, clock_vars>>

\* read_frames, lines 97-99 and 113-117: the capture is opened, or it is
\* not and the RuntimeError ends the thread with the stop flag set
ReaderOpen ==
    /\ reader_pc = "open"
    /\ \E opened \in BOOLEAN :
          IF opened
          THEN reader_pc' = "loop" /\ stop_flag' = stop_flag
          ELSE reader_pc' = "done" /\ stop_flag' = TRUE
    /\ unchanged_exercise
    /\ UNCHANGED history_vars
    /\ UNCHANGED <<cleanup_pc, processor_pc, main_pc, frame_queue,
                   frames_left, processor_frame, config_vars, summary_vars, clock_vars>>

\* read_frames, lines 101 and 116-117: the test of the while loop; with the
\* stop flag set the loop ends, and the finally clause sets the stop flag
ReaderLoop ==
    /\ reader_pc = "loop"
    /\ reader_pc' = IF stop_flag THEN "done" ELSE "read"
    /\ unchanged_exercise
    /\ UNCHANGED history_vars
    /\ UNCHANGED <<cleanup_pc, processor_pc, main_pc, frame_queue, stop_flag,
                   frames_left, processor_frame, config_vars, summary_vars,
                   clock_vars>>

\* read_frames, lines 102-111 and 116-117: cap.read() and the put. At the
\* end of the stream the loop ends and the finally clause sets the stop
\* flag; otherwise the frame read is put in the queue, or skipped when the
\* queue stays full, and the loop goes on. The frame carries its position
\* in the source (history)
ReaderRead ==
    /\ reader_pc = "read"
    /\ \E ret \in BOOLEAN :
          IF ~ret \/ frames_left = 0
          THEN /\ reader_pc' = "done"
               /\ stop_flag' = TRUE
               /\ UNCHANGED <<frame_queue, frames_left>>
          ELSE /\ \E frame \in StreamFrames(exercise) :
                      frame_queue' =
                          put(frame_queue,
                              frame @@ [position |->
                                            MaxFrames - frames_left + 1])
               /\ frames_left' = frames_left - 1
               /\ reader_pc' = "loop"
               /\ UNCHANGED stop_flag
    /\ unchanged_exercise
    /\ UNCHANGED history_vars
    /\ UNCHANGED <<cleanup_pc, processor_pc, main_pc, processor_frame,
                   config_vars, summary_vars, clock_vars>>

\* process_frames, line 125: the test of the while loop
ProcessorTest ==
    /\ processor_pc = "test"
    /\ processor_pc' = IF process_frames_continues(stop_flag, frame_queue)
                       THEN "get" ELSE "finally"
    /\ unchanged_exercise
    /\ UNCHANGED history_vars
    /\ UNCHANGED <<cleanup_pc, reader_pc, main_pc, frame_queue, stop_flag,
                   frames_left, processor_frame, config_vars, summary_vars, clock_vars>>

\* process_frames, lines 126-133: frame_queue.get(timeout=0.5) hands over
\* the oldest frame and the callback is entered, or raises Empty and the
\* loop continues
ProcessorGet ==
    /\ processor_pc = "get"
    /\ IF frame_queue # <<>>
       THEN /\ processor_frame' = <<Head(frame_queue)>>
            /\ frame_queue' = Tail(frame_queue)
            /\ processor_pc' = "in_callback"
       ELSE /\ processor_pc' = "test"
            /\ UNCHANGED <<frame_queue, processor_frame>>
    /\ unchanged_exercise
    /\ UNCHANGED history_vars
    /\ UNCHANGED <<cleanup_pc, reader_pc, main_pc, stop_flag, frames_left,
                   config_vars, summary_vars, clock_vars>>

\* process_frames, lines 133-149: process_frame_callback returns, the frame
\* is shown, and the user asks to stop with the q key or does not
ProcessorCallback ==
    /\ processor_pc = "in_callback"
    /\ \E post \in {process_frame(Self, processor_frame[1])} :
          /\ SetSelf(post)
          /\ cycle_has_issues' =
                 IF post.state = "up" THEN FALSE
                 ELSE cycle_has_issues
                         \/ frame_has_issues(Self, processor_frame[1])
    /\ processor_frame' = <<>>
    /\ callback_log' = Append(callback_log, processor_frame[1].position)
    /\ \E quit \in BOOLEAN :
          /\ user_quit' = (user_quit \/ quit)
          /\ IF quit
             THEN processor_pc' = "finally" /\ stop_flag' = TRUE
             ELSE processor_pc' = "test" /\ stop_flag' = stop_flag
    /\ UNCHANGED <<cleanup_pc, reader_pc, main_pc, frame_queue, frames_left,
                   config_vars, summary_vars, clock_vars>>

\* process_frames, lines 154-162: the finally clause, and the thread ends
ProcessorFinally ==
    /\ processor_pc = "finally"
    /\ processor_pc' = "done"
    /\ unchanged_exercise
    /\ UNCHANGED history_vars
    /\ UNCHANGED <<cleanup_pc, reader_pc, main_pc, frame_queue, stop_flag,
                   frames_left, processor_frame, config_vars, summary_vars, clock_vars>>

\* start, lines 176-177: reader_thread.join()
JoinReader ==
    /\ main_pc = "join_reader"
    /\ join(reader_pc)
    /\ main_pc' = "join_processor"
    /\ unchanged_exercise
    /\ UNCHANGED history_vars
    /\ UNCHANGED <<cleanup_pc, reader_pc, processor_pc, frame_queue,
                   stop_flag, frames_left, processor_frame, config_vars,
                   summary_vars, clock_vars>>

\* start, lines 176-177: processor_thread.join()
JoinProcessor ==
    /\ main_pc = "join_processor"
    /\ join(processor_pc)
    /\ main_pc' = "cleanup"
    /\ unchanged_exercise
    /\ UNCHANGED history_vars
    /\ UNCHANGED <<cleanup_pc, reader_pc, processor_pc, frame_queue,
                   stop_flag, frames_left, processor_frame, config_vars,
                   summary_vars, clock_vars>>

\* cleanup, lines 188-200: the stop flag is set, the queue is emptied, and
\* generate_summary is entered when the report was asked for; without a
\* report the writer is released, the windows are closed and start returns
CleanupEnter ==
    /\ main_pc = "cleanup"
    /\ stop_flag' = TRUE
    /\ frame_queue' = <<>>
    /\ \E report \in BOOLEAN :
          IF report
          THEN main_pc' = "in_summary" /\ cleanup_pc' = cleanup_pc
          ELSE main_pc' = "returned" /\ cleanup_pc' = "done"
    /\ unchanged_exercise
    /\ UNCHANGED history_vars
    /\ UNCHANGED <<reader_pc, processor_pc, frames_left, processor_frame,
                   config_vars, summary_vars, clock_vars>>

\* cleanup, lines 197-206: generate_summary returns and the writer and the
\* windows are released, or it raises and start ends with the exception
CleanupSummary ==
    /\ main_pc = "in_summary"
    /\ cleanup_pc' = IF generate_summary(Self) = "ZeroDivisionError"
                     THEN "raised" ELSE "done"
    /\ main_pc' = "returned"
    /\ unchanged_exercise
    /\ UNCHANGED history_vars
    /\ UNCHANGED <<reader_pc, processor_pc, frame_queue, stop_flag,
                   frames_left, processor_frame, config_vars, summary_vars, clock_vars>>

ReaderStep == ReaderOpen \/ ReaderLoop \/ ReaderRead

ProcessorStep ==
    ProcessorTest \/ ProcessorGet \/ ProcessorCallback \/ ProcessorFinally

MainStep ==
    \/ StartReader
    \/ StartProcessor
    \/ JoinReader
    \/ JoinProcessor
    \/ CleanupEnter
    \/ CleanupSummary

NextVideo == ReaderStep \/ ProcessorStep \/ MainStep

SpecVideo == Init /\ [][NextVideo]_vars

\* the three threads are scheduled by the operating system: none of them is
\* left waiting forever while it can take a step
FairSpecVideo ==
    /\ Init
    /\ [][NextVideo]_vars
    /\ WF_vars(ReaderStep)
    /\ WF_vars(ProcessorStep)
    /\ WF_vars(MainStep)

-----------------------------------------------------------------------------
(* Helpers of the properties *)

\* the running minimum of the primary angle
min_primary_angle == IF exercise = "Squat" THEN min_knee_angle
                                           ELSE min_elbow_angle

MidToUp == state = "mid" /\ state' = "up"
UpToMid == state = "up" /\ state' = "mid"
RepCounted == rep_count' = rep_count + 1
CountersUnchanged ==
    /\ rep_count' = rep_count
    /\ reps_correct' = reps_correct
    /\ reps_incorrect' = reps_incorrect

\* a squat frame of the left side with every joint visible
SquatFrame(knee, hip, ankle) ==
    [pose |-> TRUE, shoulder_z |-> <<0, 1>>, vis |-> AllVisible,
     primary |-> knee, hip |-> hip, ankle |-> ankle]

\* the object after process_frame on each frame of fs in turn
RECURSIVE run_frames(_, _)
run_frames(s, fs) ==
    IF fs = <<>> THEN s
    ELSE run_frames(process_frame(s, Head(fs)), Tail(fs))

-----------------------------------------------------------------------------
(* C1..C10 *)

\* C1: in Squat and Pushup rep_count == reps_correct + reps_incorrect after
\* every process_frame call.
C1_CountIsSum == rep_count = reps_correct + reps_incorrect

C1_Witness ==
    /\ rep_count = MaxReps
    /\ reps_correct >= 1
    /\ reps_incorrect >= 1

\* C2: in Squat rep_count never decreases; it grows by exactly 1 in a frame
\* iff that frame performs Mid->Up with min_knee_angle below
\* STATE_THRESH.depth, and it never changes otherwise (so two increments are
\* separated by a return to Mid).
C2_SquatCountsOncePerRep ==
    [][exercise = "Squat" =>
        /\ rep_count' \in {rep_count, rep_count + 1}
        /\ RepCounted <=>
              (MidToUp /\ min_knee_angle < STATE_THRESH(Self).depth)]_vars

C2_Witness ==
    exercise = "Squat" /\ rep_count = MaxReps /\ state = "up"

\* C3: in Squat, the Mid->Up frame of a cycle whose running minimum stayed
\* above STATE_THRESH.depth changes none of rep_count, reps_correct and
\* reps_incorrect, no other frame of the cycle changes them either, and
\* min_knee_angle is 180 after the Mid->Up frame; so it is for the knee
\* sequence 150,130,110,140,155 fed to a squat in Up.
C3_ShallowCycle ==
    <<SquatFrame(150, 75, 90), SquatFrame(130, 75, 90),
      SquatFrame(110, 75, 90), SquatFrame(140, 75, 90),
      SquatFrame(155, 75, 90)>>

C3_Example ==
    (exercise = "Squat" /\ state = "up")
    => /\ \A i \in 1..Len(C3_ShallowCycle) :
             C3_ShallowCycle[i] \in Frames("Squat")
       /\ run_frames(Self, SubSeq(C3_ShallowCycle, 1, 3)).state = "mid"
       /\ LET s == run_frames(Self, C3_ShallowCycle)
          IN  /\ s.state = "up"
              /\ s.rep_count = rep_count
              /\ s.reps_correct = reps_correct
              /\ s.reps_incorrect = reps_incorrect
              /\ s.min_knee_angle = ANGLE_MAX

C3_SquatDepthGate ==
    [][exercise = "Squat" =>
        /\ C3_Example
        /\ (MidToUp /\ min_knee_angle > STATE_THRESH(Self).depth)
              => CountersUnchanged
        /\ ~MidToUp => CountersUnchanged
        /\ MidToUp => min_knee_angle' = ANGLE_MAX]_vars

\* a shallow cycle has come and gone: back in Up with the 'not deep enough'
\* label collected and nothing counted
C3_Witness ==
    /\ exercise = "Squat"
    /\ state = "up"
    /\ rep_count = 0
    /\ "Squat not deep enough" \in rep_errors
    /\ min_knee_angle = ANGLE_MAX

\* C4 (as claimed): in Pushup, the Mid->Up frame of a cycle whose running
\* minimum elbow angle stayed above the 90 degree depth target does not
\* increment rep_count.
C4_PushupDepthGate ==
    [][(exercise = "Pushup" /\ MidToUp /\ min_elbow_angle > PUSHUP_DEPTH)
          => rep_count' = rep_count]_vars

\* C5: a frame that counts a repetition increments exactly one of
\* reps_correct and reps_incorrect by 1: reps_incorrect if rep_errors is
\* non-empty at that moment, reps_correct otherwise; the first squat cycle
\* 150,130,95,85,70,95,130,155 ends with rep_count = 1 and reps_correct = 1
\* with the secondary angles in bounds, and with reps_incorrect = 1 with
\* the hip angle below hip_min in the depth phase.
C5_CleanCycle ==
    <<SquatFrame(150, 75, 90), SquatFrame(130, 75, 90),
      SquatFrame(95, 75, 90),  SquatFrame(85, 75, 90),
      SquatFrame(70, 75, 90),  SquatFrame(95, 75, 90),
      SquatFrame(130, 75, 90), SquatFrame(155, 75, 90)>>

C5_LeaningCycle ==
    <<SquatFrame(150, 75, 90), SquatFrame(130, 75, 90),
      SquatFrame(95, 75, 90),  SquatFrame(85, 50, 90),
      SquatFrame(70, 50, 90),  SquatFrame(95, 75, 90),
      SquatFrame(130, 75, 90), SquatFrame(155, 75, 90)>>

\* the example cycles, fed to a squat that has counted nothing and
\* collected no label yet
C5_Examples ==
    (exercise = "Squat" /\ state = "up" /\ rep_count = 0 /\ rep_errors = {})
    => /\ \A i \in 1..Len(C5_CleanCycle) :
             /\ C5_CleanCycle[i] \in Frames("Squat")
             /\ C5_LeaningCycle[i] \in Frames("Squat")
       /\ LET s == run_frames(Self, C5_CleanCycle)
          IN  s.rep_count = 1 /\ s.reps_correct = 1 /\ s.reps_incorrect = 0
       /\ LET s == run_frames(Self, C5_LeaningCycle)
          IN  s.rep_count = 1 /\ s.reps_correct = 0 /\ s.reps_incorrect = 1

C5_ClassifiedByErrors ==
    [][/\ C5_Examples
       /\ RepCounted =>
            IF rep_errors # {}
            THEN /\ reps_incorrect' = reps_incorrect + 1
                 /\ reps_correct' = reps_correct
            ELSE /\ reps_correct' = reps_correct + 1
                 /\ reps_incorrect' = reps_incorrect]_vars

C5_Witness ==
    /\ reps_correct = 1
    /\ reps_incorrect = 1
    /\ rep_errors # {}

\* C6 (as claimed): at the end of the frame that counts a repetition
\* rep_errors is empty.
C6_ErrorsClearedOnCompletion ==
    [][RepCounted => rep_errors' = {}]_vars

\* C7 (as claimed): a repetition is counted as correct when no form check of
\* its own cycle returned issues, whatever earlier cycles raised.
C7_ClassifiedFromOwnCycle ==
    [][(RepCounted /\ ~cycle_has_issues)
          => reps_correct' = reps_correct + 1]_vars

\* C8: a process_frame call with no pose, without shoulders (undefined
\* side, no required-landmark list) or with a required landmark whose
\* visibility is below 0.5 leaves state, last_state, rep_count,
\* rep_completed, rep_errors, reps_correct, reps_incorrect and the running
\* minimum unchanged.
RequiredJoints ==
    IF exercise = "Squat"
    THEN {"nose", "shoulder", "hip", "knee", "ankle", "foot_index"}
    ELSE {"nose", "shoulder", "hip", "knee", "ankle"}

Unusable(f) ==
    \/ ~f.pose
    \/ f.shoulder_z = <<>>
    \/ \E j \in RequiredJoints : f.vis[j] < VISIBILITY_MIN

MachineFields(s) ==
    <<s.state, s.last_state, s.rep_count, s.rep_completed, s.rep_errors,
      s.reps_correct, s.reps_incorrect, s.min_knee_angle, s.min_elbow_angle>>

C8_UnusableFramesChangeNothing ==
    \A f \in Frames(exercise) :
        Unusable(f) =>
            MachineFields(process_frame(Self, f)) = MachineFields(Self)

\* an undefined-side frame has been processed in the middle of a cycle
C8_Witness ==
    /\ state = "mid"
    /\ body_direction = "None"
    /\ rep_errors # {}
    /\ rep_count >= 1

\* C9: feeding the same angles (primary angle below STATE.mid) a second
\* time while in Mid leaves state, rep_count, rep_completed, the running
\* minimum and rep_errors as they were after the first feed.
C9_Fields(s) ==
    <<s.state, s.rep_count, s.rep_completed, s.min_knee_angle,
      s.min_elbow_angle, s.rep_errors>>

C9_IdempotentInMid ==
    \A f \in Frames(exercise) :
        LET once == process_frame(Self, f)
        IN  (/\ ~Unusable(f)
             /\ f.primary < STATE_THRESH(Self).mid
             /\ once.state = "mid")
            => /\ process_frame(once, f).state = "mid"
               /\ C9_Fields(process_frame(once, f)) = C9_Fields(once)

\* in Mid, on the way up above the minimum, with labels collected
C9_Witness ==
    /\ state = "mid"
    /\ is_going_up
    /\ rep_errors # {}
    /\ min_primary_angle < STATE_THRESH(Self).mid

\* C10: at the end of every frame with state == 'up' the running minimum
\* (min_knee_angle / min_elbow_angle) is 180; in particular it is 180 at
\* the end of the frame that performs Mid->Up.
C10_MinimumResetInUp ==
    state = "up" => min_primary_angle = ANGLE_MAX

C10_Witness ==
    /\ state = "up"
    /\ rep_count >= 1
    /\ min_primary_angle = ANGLE_MAX

-----------------------------------------------------------------------------
(* C18..C20: the core engine *)

\* C18: state is always 'up' or 'mid'; a frame moves Squat/Pushup Up->Mid
\* only if it is analysed with primary angle < STATE.mid, Mid->Up only if
\* it is analysed with primary angle > STATE.up, and a frame with
\* STATE.mid <= angle <= STATE.up never changes state.
C18_TransitionsByThresholds ==
    /\ state \in {"up", "mid"}
    /\ \A f \in Frames(exercise) :
          LET after == process_frame(Self, f).state
          IN  /\ after \in {"up", "mid"}
              /\ (state = "up" /\ after = "mid")
                    => (~Unusable(f) /\ f.primary < STATE_THRESH(Self).mid)
              /\ (state = "mid" /\ after = "up")
                    => (~Unusable(f) /\ f.primary > STATE_THRESH(Self).up)
              /\ (/\ f.primary >= STATE_THRESH(Self).mid
                  /\ f.primary <= STATE_THRESH(Self).up)
                    => after = state

\* back in Mid after a completed cycle: both transitions have been taken
C18_Witness ==
    /\ state = "mid"
    /\ rep_count >= 1
    /\ min_primary_angle < STATE_THRESH(Self).mid

\* C19 (as claimed): the Mid->Up frame of a squat cycle whose minimum knee
\* angle is at or below STATE_THRESH.depth counts the repetition.
C19_DepthReachedCounts ==
    [][(/\ exercise = "Squat"
        /\ MidToUp
        /\ min_knee_angle <= STATE_THRESH(Self).depth)
          => RepCounted]_vars

\* C20 (as claimed): rep_count is unchanged at the end of the frame that
\* performs Mid->Up.
C20_FinalizedOneFrameLater ==
    [][MidToUp => rep_count' = rep_count]_vars

\* C20 (amended): the frame that performs Mid->Up and completes the
\* repetition (always in Pushup, with min_knee_angle below depth in Squat)
\* increments rep_count itself and leaves rep_completed false; a frame
\* that starts in Up never increments rep_count.
C20_FinalizedInSameFrame ==
    [][/\ (MidToUp /\ (exercise = "Squat" =>
                          min_knee_angle < STATE_THRESH(Self).depth))
            => (RepCounted /\ ~rep_completed')
       /\ state = "up" => (rep_count' = rep_count /\ ~rep_completed')]_vars

\* a frame has been processed in Up after a counted repetition
C20_Witness ==
    /\ state = "up"
    /\ rep_count = 1
    /\ ~rep_completed
    /\ body_direction = "None"

-----------------------------------------------------------------------------
(* C13: the core session summary *)

\* C13 (as claimed): VideoProcessor.cleanup never ends in an exception of
\* generate_summary, so it always reaches the video-writer release and the
\* window teardown, also when no Mid->Up transition occurred.
C13_CleanupCompletes == cleanup_pc # "raised"

-----------------------------------------------------------------------------
(* C11, C12: ExerciseSummary (SpecSummary) *)

\* C11 (as claimed): once update_metrics has seen the current rep_count,
\* metrics.correct_reps + metrics.incorrect_reps == metrics.total_reps ==
\* exercise.rep_count, and no issues_frequency entry exceeds the number of
\* completed reps.
C11_CountersMatchReps ==
    summary.last_rep_count = legacy.rep_count =>
        /\ summary.correct_reps + summary.incorrect_reps = summary.total_reps
        /\ summary.total_reps = legacy.rep_count
        /\ \A l \in LegacyLabels :
              summary.issues_frequency[l] <= legacy.rep_count

\* the entry of angle a in the angle_metrics that generate_summary leaves
\* when called now
GeneratedEntry(a) == summary_generate_summary(summary).angle_metrics[a]

-----------------------------------------------------------------------------
(* C14: the thresholds during a session (SpecConfig) *)

\* C14 (as claimed): the STATE_THRESH and ANGLE_THRESHOLDS values the
\* exercise instance reads never change after its construction, whatever
\* save_settings, reset_to_defaults and load_config calls happen.
C14_ThresholdsImmutable ==
    [][/\ get_state_thresholds(exercise)' = get_state_thresholds(exercise)
       /\ get_angle_thresholds(exercise)' = get_angle_thresholds(exercise)
      ]_vars

-----------------------------------------------------------------------------
(* C15..C17: VideoProcessor (SpecVideo, FairSpecVideo) *)

\* C15: in every reachable state of VideoProcessor the number of frames in
\* frame_queue is between 0 and queue_size.
C15_QueueBounded == Len(frame_queue) \in 0..queue_size

\* the queue is full while the reader is about to read another frame
C15_Witness ==
    /\ Len(frame_queue) = queue_size
    /\ reader_pc = "loop"
    /\ ~stop_flag
    /\ frames_left > 0

\* the threads that are inside a method of the exercise instance
Accessing ==
    (IF processor_pc = "in_callback" THEN {"processor"} ELSE {})
        \cup (IF main_pc = "in_summary" THEN {"main"} ELSE {})

\* C16: the exercise instance changes only inside the callback of the
\* processor thread, generate_summary is entered at most once and only
\* after the reader and the processor thread have terminated, and no two
\* threads are inside the instance at the same time.
C16_SingleOwner ==
    [][/\ Self' # Self => processor_pc = "in_callback"
       /\ (main_pc' = "in_summary" /\ main_pc # "in_summary") =>
              /\ cleanup_pc = "not_run"
              /\ reader_pc = "done"
              /\ processor_pc = "done"
       /\ Cardinality(Accessing') <= 1
      ]_vars

\* generate_summary is running on an instance that the callback moved to Mid
C16_Witness == main_pc = "in_summary" /\ state = "mid"

\* C17 (as claimed): once read_frames has ended, start() eventually returns
\* after running cleanup.
C17_StartReturns == (reader_pc = "done") ~> (main_pc = "returned")

-----------------------------------------------------------------------------
(* C21..C26, C30: minimum tracking, form checks and body side (Spec) *)

\* the running minimum of the primary angle of object s
min_primary(s) == IF s.exercise = "Squat" THEN s.min_knee_angle
                                          ELSE s.min_elbow_angle

\* C21: while Squat/Pushup is in Mid, the running minimum is below
\* STATE_THRESH.mid, and an analysed frame that ends in Mid leaves it at the
\* frame's primary angle when the frame enters Mid from Up, and at the
\* smaller of the former minimum and the frame's primary angle otherwise:
\* the minimum of the primary angles since the Up->Mid entry frame.
C21_RunningMinimum ==
    /\ state = "mid" => min_primary_angle < STATE_THRESH(Self).mid
    /\ \A f \in Frames(exercise) :
          LET post == process_frame(Self, f)
          IN  (Analysed(Self, f) /\ post.state = "mid") =>
                  /\ min_primary(post) < STATE_THRESH(Self).mid
                  /\ min_primary(post) =
                         IF state = "up" \/ f.primary < min_primary_angle
                         THEN f.primary ELSE min_primary_angle

\* in Mid, above a minimum that an earlier frame of the cycle set
C21_Witness ==
    /\ exercise = "Squat"
    /\ state = "mid"
    /\ is_going_up
    /\ min_knee_angle < STATE_THRESH(Self).depth

\* C22 (as claimed): after every Mid frame of Squat/Pushup, is_going_up
\* equals (primary_angle > min_primary_angle) with the updated minimum:
\* false while descending or holding at the minimum.
C22_GoingUpIsAboveMinimum ==
    \A f \in Frames(exercise) :
        LET post == process_frame(Self, f)
        IN  (Analysed(Self, f) /\ post.state = "mid") =>
                (post.is_going_up <=> f.primary > min_primary(post))

\* C24 (as claimed): a Mid frame of Pushup in which is_going_up is true and
\* the tracked minimum elbow angle is above 90 degrees adds 'Not deep
\* enough' to rep_errors and is marked as having issues.
C24_PushupNotDeepEnough ==
    exercise = "Pushup" =>
        \A f \in Frames(exercise) :
            LET post == process_frame(Self, f)
            IN  (/\ Analysed(Self, f)
                 /\ post.state = "mid"
                 /\ post.is_going_up
                 /\ post.min_elbow_angle > PUSHUP_DEPTH) =>
                    /\ "Not deep enough" \in post.rep_errors
                    /\ frame_has_issues(Self, f)

\* C30 (as claimed): in Squat, at the end of every frame the length of the
\* lists of min_squat_angles equals rep_count.
C30_OneMinimumPerRep == exercise = "Squat" => min_angles_len = rep_count

\* C23 (as claimed): a squat cycle started with rep_errors empty carries
\* 'Squat not deep enough' when it leaves Mid only if its minimum knee angle
\* never reached STATE_THRESH.depth; a cycle that reaches depth does not
\* carry it, even when the knee rose for a while before reaching depth.
C23_NotDeepOnlyIfShallow ==
    (exercise = "Squat" /\ state = "up" /\ rep_errors = {}) =>
        \A k1, k2, k3 \in {85, 110, 130} :
            LET s == run_frames(Self, <<SquatFrame(k1, 75, 90),
                                        SquatFrame(k2, 75, 90),
                                        SquatFrame(k3, 75, 90)>>)
            IN  (s.state = "mid" /\ "Squat not deep enough" \in s.rep_errors)
                    => ~(s.min_knee_angle < STATE_THRESH(Self).depth)

\* C26: after a process_frame call on a frame with both shoulders,
\* body_direction is 'Left' iff left_shoulder.z < right_shoulder.z and
\* 'Right' otherwise (a tie gives 'Right'), whatever body_direction was
\* before the frame and whether or not the frame goes on to be analysed;
\* the landmarks required of the frame are those of that side.
C26_DirectionFromCurrentFrame ==
    \A f \in Frames(exercise) :
        (f.pose /\ f.shoulder_z # <<>>) =>
            LET post == process_frame(Self, f)
                side == IF f.shoulder_z[1] < f.shoulder_z[2]
                        THEN "Left" ELSE "Right"
            IN  /\ post.body_direction = side
                /\ Analysed(Self, f) <=>
                      validate_required_landmarks(
                          f, get_required_landmarks(
                                 [Self EXCEPT !.body_direction = side]))

\* a frame has set the direction to the left in the middle of a cycle, and
\* a frame with tied shoulder depths is analysed on the right side next
C26_Witness ==
    /\ state = "mid"
    /\ body_direction = "Left"
    /\ \E f \in Frames(exercise) :
          /\ f.shoulder_z = <<1, 1>>
          /\ Analysed(Self, f)
          /\ process_frame(Self, f).body_direction = "Right"

\* C25 (as claimed): a frame adds no label to rep_errors unless it is
\* analysed and leaves the state at Mid; in Squat each of the hip, ankle and
\* 'Squat too deep' labels is added exactly in the Mid frames with the knee
\* angle below STATE_THRESH.depth that violate the label's configured bound.
C25_LabelsOnlyInPhase ==
    \A f \in Frames(exercise) :
        LET post == process_frame(Self, f)
            deep == /\ Analysed(Self, f)
                    /\ post.state = "mid"
                    /\ exercise = "Squat"
                    /\ f.primary < STATE_THRESH(Self).depth
            bound == ANGLE_THRESHOLDS(Self)
            has(label) == label \in post.rep_errors
            had(label) == label \in rep_errors
        IN  /\ (~Analysed(Self, f) \/ post.state = "up")
                  => post.rep_errors \subseteq rep_errors
            /\ exercise = "Squat" =>
                  /\ has("Maitain more upright position") <=>
                        \/ had("Maitain more upright position")
                        \/ deep /\ f.hip < bound.hip_min
                  /\ has("Bend forward slightly more") <=>
                        \/ had("Bend forward slightly more")
                        \/ deep /\ f.hip > bound.hip_max
                  /\ has("Knees going too forward") <=>
                        \/ had("Knees going too forward")
                        \/ deep /\ f.ankle < bound.ankle_min
                  /\ has("Squat too deep") <=>
                        \/ had("Squat too deep")
                        \/ deep /\ f.primary < bound.min_depth

\* C27: a frame that is not analysed leaves set_feedback and
\* feedback_timestamp alone and shows nothing; an analysed frame whose form
\* check detects an issue sets feedback_timestamp to the current time, any
\* other leaves it alone; at the end of an analysed frame feedback is shown
\* iff set_feedback is true (set by this frame or before) and the clock is
\* less than feedback_duration past feedback_timestamp, set_feedback is
\* false afterwards iff nothing was shown, and set_feedback turns from
\* false to true only in a frame that detects an issue.
C27_FeedbackRule ==
    \A f \in Frames(exercise) :
        LET post == process_frame(Self, f)
            issues == frame_has_issues(Self, f)
            shown == feedback_displayed(Self, f)
            armed == set_feedback \/ issues
            armed_at == IF issues THEN now ELSE feedback_timestamp
        IN  /\ post.feedback_timestamp = armed_at
            /\ ~Analysed(Self, f) =>
                  ~shown /\ post.set_feedback = set_feedback
            /\ Analysed(Self, f) =>
                  /\ shown <=>
                        /\ armed
                        /\ now - armed_at < feedback_duration * TicksPerSecond
                  /\ post.set_feedback <=> shown
            /\ (~set_feedback /\ post.set_feedback) => issues

\* an issue was detected after the start of the session and its window has
\* closed: an analysed frame has reset set_feedback
C27_Witness ==
    /\ ~set_feedback
    /\ feedback_timestamp > 0
    /\ now >= feedback_timestamp + feedback_duration * TicksPerSecond

\* C28 (as claimed): when the form check of a frame detects only labels
\* that rep_errors already holds, while the feedback of an earlier
\* detection is still shown, feedback_timestamp is unchanged.
C28_WindowNotRestarted ==
    \A f \in Frames(exercise) :
        LET post == process_frame(Self, f)
        IN  (/\ set_feedback
             /\ now - feedback_timestamp < feedback_duration * TicksPerSecond
             /\ frame_has_issues(Self, f)
             /\ rep_errors # {}
             /\ post.rep_errors = rep_errors)
                => post.feedback_timestamp = feedback_timestamp

\* C29 (as claimed): once generate_summary has been called, a further call
\* at any later time gives the end_time of the first call.
C29_EndTimeFixedOnce ==
    summary.end_time # <<>> =>
        summary_generate_summary(summary).end_time = summary.end_time

-----------------------------------------------------------------------------
(* C31..C39 *)

\* C36 (as claimed): a frame in which the elbow or the wrist of the selected
\* side has a visibility below 0.5 changes none of state, min_elbow_angle
\* and rep_count of a Pushup.
C36_PushupNeedsElbowAndWrist ==
    exercise = "Pushup" =>
        \A f \in Frames(exercise) :
            LET post == process_frame(Self, f)
            IN  (f.pose /\ (\/ f.vis["elbow"] < VISIBILITY_MIN
                            \/ f.vis["wrist"] < VISIBILITY_MIN)) =>
                    /\ post.state = state
                    /\ post.min_elbow_angle = min_elbow_angle
                    /\ post.rep_count = rep_count

\* C37: in a Pushup with the default thresholds and angles in [0,180],
\* 'Hip too low' is not in rep_errors, before or after any frame, and no
\* frame adds both 'Hip too high' and 'Hip too low'.
C37_HipTooLowUnreachable ==
    (exercise = "Pushup" /\ config = DEFAULT_CONFIG) =>
        /\ "Hip too low" \notin rep_errors
        /\ \A f \in Frames(exercise) :
              LET post == process_frame(Self, f)
              IN  /\ f.hip \in 0..ANGLE_MAX
                  /\ "Hip too low" \notin post.rep_errors
                  /\ ~({"Hip too high", "Hip too low"}
                          \subseteq (post.rep_errors \ rep_errors))

\* a push-up was counted with the hip label that can be raised, and the
\* next frame may bring the largest hip angle into the form check
C37_Witness ==
    /\ exercise = "Pushup"
    /\ state = "mid"
    /\ "Hip too high" \in rep_errors
    /\ rep_count >= 1
    /\ \E f \in Frames(exercise) :
          /\ Analysed(Self, f)
          /\ f.hip = ANGLE_MAX
          /\ process_frame(Self, f).state = "mid"

\* C39: at the end of every process_exercise call last_state equals state
\* and rep_completed is false; and whenever the state update of a frame
\* sets rep_completed, last_state is 'mid' at the finalization test.
C39_GateAlwaysOpen ==
    /\ last_state = state
    /\ ~rep_completed
    /\ \A f \in Frames(exercise) :
          LET post == process_frame(Self, f)
              s0 == determine_body_direction(Self, f)
              s1 == IF exercise = "Squat"
                    THEN update_squat_state(s0, f.primary)
                    ELSE update_pushup_state(s0, f.primary)
          IN  /\ post.last_state = post.state
              /\ ~post.rep_completed
              /\ (Analysed(Self, f) /\ s1.rep_completed)
                    => /\ s1.last_state = "mid"
                       /\ post.rep_count = rep_count + 1

\* the finalization has run twice and the machine is in a third cycle
C39_Witness ==
    /\ rep_count = MaxReps
    /\ state = "up"
    /\ last_state = "up"

\* C34 (as claimed): a confirmed reset_to_defaults leaves the built-in
\* values of DEFAULT_CONFIG in self.config and in the saved file, whatever
\* load_config and save_settings calls came before.
C34_ResetRestoresDefaults ==
    LET after == reset_to_defaults(config)
    IN  /\ after.config = DEFAULT_CONFIG
        /\ after.config_file.exists
        /\ after.config_file.content = DEFAULT_CONFIG

\* C31 (as claimed): when both threads have ended and the q key was not
\* pressed, no frame is left in frame_queue for the drain of cleanup.
C31_NoFrameLostAtEnd ==
    (reader_pc = "done" /\ processor_pc = "done" /\ ~user_quit)
        => frame_queue = <<>>

\* C32: the frames passed to process_frame_callback are frames read from
\* the source, in source order and each at most once; a read that finds the
\* queue full skips its frame and leaves the queue as it is; and read_frames
\* always gets past the put: to the next turn of its loop or to its end.
C32_InOrderAtMostOnce ==
    /\ [](/\ \A i \in 1..Len(callback_log) :
                callback_log[i] \in 1..(MaxFrames - frames_left)
          /\ \A i, j \in 1..Len(callback_log) :
                i < j => callback_log[i] < callback_log[j])
    /\ [][(reader_pc = "read" /\ reader_pc' = "loop") =>
             /\ frames_left' = frames_left - 1
             /\ Len(frame_queue) = queue_size => frame_queue' = frame_queue
         ]_vars
    /\ (reader_pc = "read") ~> (reader_pc \in {"loop", "done"})

\* the source delivered all its frames, two of them reached the callback
\* and the third was skipped on a full queue
C32_Witness ==
    /\ frames_left = 0
    /\ Len(callback_log) = MaxFrames - 1
    /\ frame_queue = <<>>
    /\ processor_frame = <<>>
    /\ ~user_quit

\* C33 (as claimed): stop_flag is never cleared once set; after the
\* processor thread has set it on the q key, the callback is called on no
\* further frame, the reader enqueues at most one more frame (an enqueue
\* brings it back to the test of its loop, which it leaves for its end),
\* and start() returns after cleanup has run, with the queue empty.
C33_CooperativeCancellation ==
    /\ [][stop_flag => stop_flag']_vars
    /\ [][user_quit => (callback_log' = callback_log /\ Self' = Self)]_vars
    /\ [][(user_quit /\ Len(frame_queue') > Len(frame_queue))
              => reader_pc' = "loop"]_vars
    /\ [][(user_quit /\ reader_pc = "loop" /\ reader_pc' # "loop")
              => reader_pc' = "done"]_vars
    /\ user_quit ~> (/\ main_pc = "returned"
                     /\ cleanup_pc = "done"
                     /\ frame_queue = <<>>)

\* C35: while is_warmup is true a process_frame call changes none of the
\* state, the counters, rep_errors and the running minimum, and analyses
\* nothing; the call ends the warm-up iff the clock is at least
\* warmup_duration past the first frame of the warm-up (warmup_start, which
\* the first call sets to its own time); and is_warmup, once false, stays
\* false.
C35_WarmupFreezesMachine ==
    /\ [](is_warmup =>
            \A f \in Frames(exercise) :
                LET post == process_frame(Self, f)
                    first == IF warmup_start = <<>> THEN now
                             ELSE warmup_start[1]
                IN  /\ MachineFields(post) = MachineFields(Self)
                    /\ post.body_direction = body_direction
                    /\ ~Analysed(Self, f)
                    /\ ~post.is_warmup <=>
                          now - first >= warmup_duration * TicksPerSecond
                    /\ post.is_warmup => post.warmup_start = <<first>>)
    /\ [](warmup_start # <<>> => (is_warmup /\ warmup_start[1] <= now))
    /\ [][~is_warmup => ~is_warmup']_vars

\* the warm-up is over and a frame after it took the machine to Mid
C35_Witness ==
    /\ ~is_warmup
    /\ state = "mid"
    /\ now > warmup_duration * TicksPerSecond

\* C38 (as claimed): the frame of the first-generation Pushup that takes
\* the state from Mid to Up counts the repetition: rep_count has grown by
\* one when process_exercise returns, and no completed repetition is left
\* uncounted.
C38_LegacyPushupCountsAtMidToUp ==
    \A f \in LegacyPushupFrames :
        LET post == legacy_pushup_process_exercise(legacy_pushup, f)
        IN  (/\ f.pose
             /\ legacy_pushup.body_direction \in {"Left", "Right"}
             /\ legacy_pushup.state = "mid"
             /\ post.state = "up") =>
                /\ post.rep_count = legacy_pushup.rep_count + 1
                /\ ~post.rep_completed

====
